---- MODULE Spec2Model ----
(***************************************************************************)
(* The batching and flush subsystem of the OmniPulse Go SDK client         *)
(* (Client in src/fiber.go): four buffers behind bufferMu, the append      *)
(* entry points addLog / addSpan / addMetric / LogJob, Flush, the          *)
(* background flushWorker, Close, and the transport function send.         *)
(*                                                                         *)
(* Every goroutine is a process of the model.  The application calls the   *)
(* client from the goroutines in Threads; flushWorker is the goroutine     *)
(* started by New; each `go c.Flush()` of an append starts one more.       *)
(* Every invocation of Flush, whoever runs it, is one entry of `flushes`,  *)
(* which is kept after the invocation has returned so that the snapshots   *)
(* and delivery attempts of different invocations can be compared.         *)
(*                                                                         *)
(* Spec, FairSpec and StallSpec start from the client as New returns it;    *)
(* SpecLoaded and SpecSend start with one record of each kind buffered;     *)
(* SpecNew starts before the call of New, for every configuration and       *)
(* environment, and takes the one step of New.                              *)
(***************************************************************************)
EXTENDS Naturals, Sequences, FiniteSets

(* ------------------------------ bounds -------------------------------- *)

\* The largest cfg.BatchSize a client is constructed with.
MaxBatchSize == 2
\* The work of one behaviour: the number of appends plus the number of Flush
\* invocations (manual, of Close, of the ticker, size-triggered).
MaxOps == 4
\* The same for a behaviour that starts with one record of each kind buffered.
LoadedOps == 2

\* The requests the HTTP server serves, and the work of the appends made for
\* them.
MaxRequests == 2
HTTPOps == 6

\* The goroutines of the application.  `main` is the goroutine that owns the
\* client: it appends and it calls Flush and Close.  `handler` is a request
\* handler: it appends, concurrently with main.
Threads == {"main", "handler"}
Owners == {"main"}

(* ------------------------------ data ---------------------------------- *)

\* The four buffers of Client, in the order Flush processes them.
KindOrder == <<"log", "span", "metric", "job">>
Kinds == {"log", "span", "metric", "job"}

\* The endpoint each send helper posts to.
sendLogsPath == "/api/ingest/logs"
sendSpansPath == "/api/ingest/traces"
sendMetricsPath == "/api/ingest/app-metrics"
sendJobPath == "/api/ingest/app-job"

\* What httpClient.Do can produce: no response at all (connection refused,
\* timeout, cancelled context), or a response with a status code.
NoResponse == 0
Statuses == {200, 500}

\* The status codes around the limit between success and failure.
StatusCodes == {200, 399, 400, 500}

\* The nil error.  An error value is [msg, req]: the message of the failing
\* branch of send and the position, within its Flush, of the request that failed.
Nil == [msg |-> "nil", req |-> 0]

\* The error New returns when a required field is missing.
ErrRequired == [msg |-> "APIUrl and IngestKey are required", req |-> 0]

\* The defaults New sets; durations are in seconds.
DefaultEnvironment == "production"
DefaultBatchSize == 100
DefaultFlushInterval == 5
DefaultTimeout == 5

\* The values New is called with: a field of Config is left at its zero value
\* ("" or 0) or set by the caller, and the two variables of the environment
\* are unset (os.Getenv returns "") or set.
Urls == {"", "http://backend"}
IngestKeys == {"", "key"}
EnvUrls == {"", "http://env"}
EnvIngestKeys == {"", "envkey"}
Environments == {"", "staging"}
FlushIntervals == {0, 1}
Timeouts == {0, 10}

\* A process without a client: no buffers, no scheduler.
NoBuffers == <<>>
NoWorker == [pc |-> "none", fl |-> 0]
ZeroConfig ==
  [APIUrl |-> "", IngestKey |-> "", Environment |-> "", BatchSize |-> 0,
   FlushInterval |-> 0, Timeout |-> 0]

\* The values the application gives to a Span: the value of the one
\* attribute it sets, the status with its message, the name of an event.
AttributeValues == {"v1", "v2"}
SpanStatuses == {[Status |-> "ok", StatusMsg |-> ""], [Status |-> "error", StatusMsg |-> "failed"]}
EventNames == {"event"}

\* A Span as StartSpan returns it: status ok, an empty map of attributes, no
\* events.  Attributes is the content of the map object the Span points to,
\* Events the elements of the array of its slice.
StartSpan == [Status |-> "ok", StatusMsg |-> "", Attributes |-> {}, Events |-> <<>>]

\* A client that no Span has been started on.
NoSpan == [Status |-> "", StatusMsg |-> "", Attributes |-> {}, Events |-> <<>>]

\* The Attributes field of a SpanData that End built: the map object of its
\* Span, not a map of its own.
MapOfSpan == "s.Attributes"

\* The requests that reach the middleware, and the status the wrapped handler
\* leaves in the responseWriter (200 where it never calls WriteHeader).
Methods == {"GET"}
Paths == {"/health", "/healthz", "/ready", "/readyz", "/health/", "/users"}
HandlerStatusCodes == {200, 404}

\* The goroutine of the HTTP server before its first request.
NoRequests == [pc |-> "idle", served |-> <<>>]

\* The names of the two metrics of the middleware.
durationMetric == "http.request.duration"
countMetric == "http.request.count"

\* A client on which Test has not been called: no test entry, no Flush.
NoTest == [entry |-> 0, fl |-> 0]

\* bufferMu when no goroutine holds it.
Unlocked == <<>>

\* make([]T, 0, c.config.BatchSize): a fresh empty buffer of each kind.
makeBuffers == [k \in Kinds |-> <<>>]

VARIABLES
  test,       \* the call of Test: its log entry, its Flush
  http,       \* the goroutine of the HTTP server: where it is, the requests it served
  span,       \* a Span of the application: its fields, its map, its events
  spanData,   \* the SpanData built by Span.End, by number of the record
  backend,    \* the status codes the backend answers a request with
  unencodable, \* the records whose payload json.Marshal fails on
  environ,    \* the environment of the process, as os.Getenv reads it
  cfg,        \* the Config that New was called with
  newRet,     \* the call of New: its position, and what it returned
  config,     \* c.config: cfg after the fallbacks and the defaults of New
  buf,        \* logBuffer, spanBuffer, metricBuffer, jobBuffer
  bufferMu,   \* the holder of bufferMu, or Unlocked
  ctxDone,    \* c.ctx has been cancelled
  wg,         \* the counter of c.wg
  worker,     \* flushWorker: its position, its ticks, its current Flush
  thr,        \* the application goroutines: position and last return value
  flushes,    \* every invocation of Flush so far
  appended,   \* number of records appended so far (records are numbered)
  swapOrder,  \* the Flush invocations in the order of their swaps
  budget      \* the work (appends and Flush invocations) that may still be started

vars == <<test, http, span, spanData, backend, unencodable, environ, cfg, newRet, config, buf, bufferMu, ctxDone, wg, worker, thr, flushes, appended, swapOrder, budget>>

(* --------------------------- pure helpers ----------------------------- *)

\* The records of a sequence of records, as a set of record numbers.
Ids(s) == {s[i].id : i \in 1..Len(s)}

\* An append that starts a Flush only above the threshold.
shouldFlushLate(len) == len > config.BatchSize

\* An append that starts a Flush one record too early.
shouldFlushEarly(len) == len + 1 >= config.BatchSize

\* An append that starts a Flush only when the buffer is exactly full.
shouldFlushExact(len) == len = config.BatchSize

\* The condition under which an append starts an asynchronous Flush.
shouldFlush(len) == len >= config.BatchSize

\* A Flush that takes no snapshot of the span buffer.
SnapshotWithoutSpans(b) == [b EXCEPT !["span"] = <<>>]

\* What Flush takes under the lock: the four buffers as they are.
Snapshot(b) == b

\* A Flush that does not replace the job buffer.
SwappedBuffersKeepJobs(b) == [makeBuffers EXCEPT !["job"] = b["job"]]

\* A Flush that does not replace the log buffer.
SwappedBuffersKeepLogs(b) == [makeBuffers EXCEPT !["log"] = b["log"]]

\* What Flush leaves behind under the lock: four fresh buffers.
SwappedBuffers(b) == makeBuffers

\* The request of each send helper: the path, and the records of the payload.
sendLogs(logs) == [path |-> sendLogsPath, recs |-> logs]
sendSpansToLogs(spans) == [path |-> sendLogsPath, recs |-> spans]
sendSpans(spans) == [path |-> sendSpansPath, recs |-> spans]
sendMetrics(metrics) == [path |-> sendMetricsPath, recs |-> metrics]
sendJob(job) == [path |-> sendJobPath, recs |-> <<job>>]

\* A Flush that sends the logs without testing len(logs) > 0.
RequestsAlwaysLogs(snap) ==
  <<sendLogs(snap["log"])>>
  \o (IF Len(snap["span"]) > 0 THEN <<sendSpans(snap["span"])>> ELSE <<>>)
  \o (IF Len(snap["metric"]) > 0 THEN <<sendMetrics(snap["metric"])>> ELSE <<>>)
  \o [i \in 1..Len(snap["job"]) |-> sendJob(snap["job"][i])]

\* A Flush that sends the jobs of its snapshot as one batch.
RequestsJobsBatched(snap) ==
  (IF Len(snap["log"]) > 0 THEN <<sendLogs(snap["log"])>> ELSE <<>>)
  \o (IF Len(snap["span"]) > 0 THEN <<sendSpans(snap["span"])>> ELSE <<>>)
  \o (IF Len(snap["metric"]) > 0 THEN <<sendMetrics(snap["metric"])>> ELSE <<>>)
  \o (IF Len(snap["job"]) > 0
        THEN <<[path |-> sendJobPath, recs |-> snap["job"]]>> ELSE <<>>)

\* The calls of send that one Flush makes for its snapshot, in order: one per
\* non-empty kind for logs, spans and metrics, then one per job.
Requests(snap) ==
  (IF Len(snap["log"]) > 0 THEN <<sendLogs(snap["log"])>> ELSE <<>>)
  \o (IF Len(snap["span"]) > 0 THEN <<sendSpans(snap["span"])>> ELSE <<>>)
  \o (IF Len(snap["metric"]) > 0 THEN <<sendMetrics(snap["metric"])>> ELSE <<>>)
  \o [i \in 1..Len(snap["job"]) |-> sendJob(snap["job"][i])]

\* json.Marshal fails on the payload of a request that holds a record it
\* cannot encode (a tag, attribute or dimension of a type JSON has not, a
\* metric value NaN); send then returns before it builds a request.
Encodable(recs) == Ids(recs) \cap unencodable = {}
marshalError(n) == [msg |-> "failed to marshal payload", req |-> n]

\* A send that takes every status below 500 for a success.
sendErrorServerOnly(status, n) ==
  IF status = NoResponse THEN [msg |-> "failed to send request", req |-> n]
  ELSE IF status >= 500 THEN [msg |-> "server returned status", req |-> n]
  ELSE Nil

\* The error send returns for the outcome of httpClient.Do.
sendError(status, n) ==
  IF status = NoResponse THEN [msg |-> "failed to send request", req |-> n]
  ELSE IF status >= 400 THEN [msg |-> "server returned status", req |-> n]
  ELSE Nil

\* A Flush that assigns lastErr after every send.
nextLastErrAlways(lastErr, err) == err

\* Flush's `if err != nil { lastErr = err }`.
nextLastErr(lastErr, err) == IF err # Nil THEN err ELSE lastErr

\* A new invocation of Flush, about to take the lock.
\* `before` is the number of records appended when its caller was called, and
\* `returned` tells that its caller has got its result.
newFlush(origin, before) ==
  [origin |-> origin, pc |-> "lock", snap |-> makeBuffers, att |-> <<>>,
   lastErr |-> Nil, swapAt |-> 0, before |-> before, returned |-> FALSE]

\* A goroutine that is not inside a call of the client.
Idle == [pc |-> "idle", kind |-> "log", fl |-> 0]

\* New's fallback to the environment for an empty APIUrl or IngestKey.
withEnviron(c, env) ==
  [c EXCEPT !.APIUrl = IF @ = "" THEN env.OMNIPULSE_URL ELSE @,
            !.IngestKey = IF @ = "" THEN env.OMNIPULSE_INGEST_KEY ELSE @]

\* A New that rejects a configuration only when both fields are missing.
missingRequiredBoth(c) == c.APIUrl = "" /\ c.IngestKey = ""

\* New's test `cfg.APIUrl == "" || cfg.IngestKey == ""`.
missingRequired(c) == c.APIUrl = "" \/ c.IngestKey = ""

\* A New that sets no default for Timeout.
withDefaultsNoTimeout(c) ==
  [c EXCEPT !.Environment = IF @ = "" THEN DefaultEnvironment ELSE @,
            !.BatchSize = IF @ = 0 THEN DefaultBatchSize ELSE @,
            !.FlushInterval = IF @ = 0 THEN DefaultFlushInterval ELSE @]

\* New's "Set defaults": each zero field gets its default.
withDefaults(c) ==
  [c EXCEPT !.Environment = IF @ = "" THEN DefaultEnvironment ELSE @,
            !.BatchSize = IF @ = 0 THEN DefaultBatchSize ELSE @,
            !.FlushInterval = IF @ = 0 THEN DefaultFlushInterval ELSE @,
            !.Timeout = IF @ = 0 THEN DefaultTimeout ELSE @]

\* What a call of New is before it returns, and what it returns.
Called == [pc |-> "called", client |-> FALSE, err |-> Nil]
Returned(client, err) == [pc |-> "returned", client |-> client, err |-> err]

\* m[key] = value on a map held as a set of <<key, value>> pairs.
mapSet(m, key, value) == {p \in m : p[1] # key} \cup {<<key, value>>}

\* The SpanData that End builds from Span s: Status and StatusMessage are
\* copied, Attributes is the same map as s.Attributes, and Events is the slice
\* s.Events: the same array, with the length it has now.
endData(s) ==
  [Status |-> s.Status, StatusMessage |-> s.StatusMsg,
   Attributes |-> MapOfSpan, Events |-> Len(s.Events)]

\* What a SpanData holds when it is read, now, with Span s as it is.
spanValue(d, s) ==
  [Status |-> d.Status, StatusMessage |-> d.StatusMessage,
   Attributes |-> IF d.Attributes = MapOfSpan THEN s.Attributes ELSE d.Attributes,
   Events |-> SubSeq(s.Events, 1, d.Events)]

(* ----------------------------- initial state -------------------------- *)

\* The client as New returns it: four empty buffers, a live context, and
\* flushWorker started with wg.Add(1).
Init ==
  /\ test = NoTest
  /\ http = NoRequests
  /\ span = NoSpan
  /\ spanData = <<>>
  /\ backend = Statuses
  /\ unencodable = {}
  /\ environ = [OMNIPULSE_URL |-> "", OMNIPULSE_INGEST_KEY |-> ""]
  /\ cfg \in {[ZeroConfig EXCEPT !.APIUrl = "http://backend", !.IngestKey = "key",
                                  !.BatchSize = b] : b \in 1..MaxBatchSize}
  /\ newRet = Returned(TRUE, Nil)
  /\ config = withDefaults(withEnviron(cfg, environ))
  /\ buf = makeBuffers
  /\ bufferMu = Unlocked
  /\ ctxDone = FALSE
  /\ wg = 1
  /\ worker = [pc |-> "select", fl |-> 0]
  /\ thr = [t \in Threads |-> Idle]
  /\ flushes = <<>>
  /\ appended = 0
  /\ swapOrder = <<>>
  /\ budget = MaxOps

(* ------------------------------- append ------------------------------- *)

\* The work of an append of kind k that holds the lock: itself, and the Flush
\* it starts when it reaches the threshold.
appendWork(k) == IF shouldFlush(Len(buf[k]) + 1) THEN 2 ELSE 1

\* c.bufferMu.Lock() of an append of kind k by goroutine t.
addLock(t, k) ==
  /\ thr[t].pc = "idle"
  /\ bufferMu = Unlocked
  /\ appendWork(k) <= budget
  /\ bufferMu' = <<"thread", t>>
  /\ thr' = [thr EXCEPT ![t] = [pc |-> "locked", kind |-> k, fl |-> 0]]
  /\ budget' = budget - appendWork(k)
  /\ UNCHANGED <<test, http, span, spanData, backend, unencodable, environ, cfg, newRet, config, buf, ctxDone, wg, worker, flushes, appended, swapOrder>>

\* An append into an array that the buffer shares with the snapshots taken
\* from it: the record shows up in the snapshots that are being delivered.
addAppendShared(t, k) ==
  /\ thr[t].pc = "locked"
  /\ thr[t].kind = k
  /\ bufferMu = <<"thread", t>>
  /\ LET rec == [id |-> appended + 1, kind |-> k]
         nb == Append(buf[k], rec)
     IN /\ buf' = [buf EXCEPT ![k] = nb]
        /\ appended' = appended + 1
        /\ flushes' = [f \in DOMAIN flushes |->
                         IF flushes[f].pc \in {"send", "wait"}
                           THEN [flushes[f] EXCEPT !.snap[k] = Append(@, rec)]
                           ELSE flushes[f]]
        /\ thr' = [thr EXCEPT ![t] = IF shouldFlush(Len(nb))
                                        THEN [@ EXCEPT !.pc = "go"] ELSE Idle]
  /\ bufferMu' = Unlocked
  /\ UNCHANGED <<test, http, span, spanData, backend, unencodable, environ, cfg, newRet, config, ctxDone, wg, worker, swapOrder, budget>>

\* An append that puts its record in front of the buffer.
addAppendFront(t, k) ==
  /\ thr[t].pc = "locked"
  /\ thr[t].kind = k
  /\ bufferMu = <<"thread", t>>
  /\ LET rec == [id |-> appended + 1, kind |-> k]
         nb == <<rec>> \o buf[k]
     IN /\ buf' = [buf EXCEPT ![k] = nb]
        /\ appended' = appended + 1
        /\ thr' = [thr EXCEPT ![t] = IF shouldFlush(Len(nb))
                                        THEN [@ EXCEPT !.pc = "go"] ELSE Idle]
  /\ bufferMu' = Unlocked
  /\ UNCHANGED <<test, http, span, spanData, backend, unencodable, environ, cfg, newRet, config, ctxDone, wg, worker, flushes, swapOrder, budget>>

\* append, the threshold test and c.bufferMu.Unlock(); without shouldFlush the
\* append returns.
addAppend(t, k) ==
  /\ thr[t].pc = "locked"
  /\ thr[t].kind = k
  /\ bufferMu = <<"thread", t>>
  /\ LET rec == [id |-> appended + 1, kind |-> k]
         nb == Append(buf[k], rec)
     IN /\ buf' = [buf EXCEPT ![k] = nb]
        /\ appended' = appended + 1
        /\ thr' = [thr EXCEPT ![t] = IF shouldFlush(Len(nb))
                                        THEN [@ EXCEPT !.pc = "go"] ELSE Idle]
  /\ bufferMu' = Unlocked
  /\ UNCHANGED <<test, http, span, spanData, backend, unencodable, environ, cfg, newRet, config, ctxDone, wg, worker, flushes, swapOrder, budget>>

\* An append that calls c.Flush() itself, without `go`, and returns when that
\* Flush has returned.
addGoSync(t, k) ==
  /\ thr[t].pc = "go"
  /\ thr[t].kind = k
  /\ flushes' = Append(flushes, newFlush("size", appended))
  /\ thr' = [thr EXCEPT ![t] = [pc |-> "flush", kind |-> k, fl |-> Len(flushes) + 1]]
  /\ UNCHANGED <<test, http, span, spanData, backend, unencodable, environ, cfg, newRet, config, buf, bufferMu, ctxDone, wg, worker, appended, swapOrder, budget>>

\* `go c.Flush()`: the append starts a Flush in a goroutine of its own and returns.
addGo(t, k) ==
  /\ thr[t].pc = "go"
  /\ thr[t].kind = k
  /\ flushes' = Append(flushes, newFlush("size", appended))
  /\ thr' = [thr EXCEPT ![t] = Idle]
  /\ UNCHANGED <<test, http, span, spanData, backend, unencodable, environ, cfg, newRet, config, buf, bufferMu, ctxDone, wg, worker, appended, swapOrder, budget>>

add(t, k) == addLock(t, k) \/ addAppend(t, k) \/ addGo(t, k)

addLog(t) == add(t, "log")
addSpan(t) == add(t, "span")
addMetric(t) == add(t, "metric")
LogJob(t) == add(t, "job")

(* ------------------------------- Flush -------------------------------- *)

\* A Flush that gives up, sending nothing, when the lock is taken.
FlushTryLock(f) ==
  /\ f \in DOMAIN flushes
  /\ flushes[f].pc = "lock"
  /\ bufferMu' = IF bufferMu = Unlocked THEN <<"flush", f>> ELSE bufferMu
  /\ flushes' = [flushes EXCEPT ![f].pc = IF bufferMu = Unlocked THEN "swap" ELSE "done"]
  /\ UNCHANGED <<test, http, span, spanData, backend, unencodable, environ, cfg, newRet, config, buf, ctxDone, wg, worker, thr, appended, swapOrder, budget>>

\* c.bufferMu.Lock() of Flush invocation f.
FlushLock(f) ==
  /\ f \in DOMAIN flushes
  /\ flushes[f].pc = "lock"
  /\ bufferMu = Unlocked
  /\ bufferMu' = <<"flush", f>>
  /\ flushes' = [flushes EXCEPT ![f].pc = "swap"]
  /\ UNCHANGED <<test, http, span, spanData, backend, unencodable, environ, cfg, newRet, config, buf, ctxDone, wg, worker, thr, appended, swapOrder, budget>>

\* A Flush that swaps the buffers and goes on to send without c.bufferMu.Unlock().
FlushSwapKeepLock(f) ==
  /\ f \in DOMAIN flushes
  /\ flushes[f].pc = "swap"
  /\ bufferMu = <<"flush", f>>
  /\ LET snap == Snapshot(buf)
     IN flushes' = [flushes EXCEPT
                      ![f].snap = snap,
                      ![f].swapAt = appended,
                      ![f].pc = IF Requests(snap) = <<>> THEN "done" ELSE "send"]
  /\ buf' = SwappedBuffers(buf)
  /\ swapOrder' = Append(swapOrder, f)
  /\ UNCHANGED <<test, http, span, spanData, backend, unencodable, environ, cfg, newRet, config, bufferMu, ctxDone, wg, worker, thr, appended, budget>>

\* The swap of the four buffers and c.bufferMu.Unlock().  With nothing to send
\* Flush falls through to `return lastErr`.
FlushSwap(f) ==
  /\ f \in DOMAIN flushes
  /\ flushes[f].pc = "swap"
  /\ bufferMu = <<"flush", f>>
  /\ LET snap == Snapshot(buf)
     IN flushes' = [flushes EXCEPT
                      ![f].snap = snap,
                      ![f].swapAt = appended,
                      ![f].pc = IF Requests(snap) = <<>> THEN "done" ELSE "send"]
  /\ buf' = SwappedBuffers(buf)
  /\ bufferMu' = Unlocked
  /\ swapOrder' = Append(swapOrder, f)
  /\ UNCHANGED <<test, http, span, spanData, backend, unencodable, environ, cfg, newRet, config, ctxDone, wg, worker, thr, appended, budget>>

\* The request Flush invocation f is about to make, or is waiting for.
CurrentRequest(f) == Requests(flushes[f].snap)[Len(flushes[f].att) + 1]

\* A Flush that returns at the first failed request.
afterSendFailFast(fl, req, status, sent) ==
  LET n == Len(fl.att) + 1
      err == IF Encodable(req.recs) THEN sendError(status, n) ELSE marshalError(n)
  IN [fl EXCEPT
        !.att = Append(fl.att, [path |-> req.path, recs |-> req.recs,
                                status |-> status, err |-> err, sent |-> sent]),
        !.lastErr = nextLastErr(fl.lastErr, err),
        !.pc = IF n < Len(Requests(fl.snap)) /\ err = Nil THEN "send" ELSE "done"]

\* Flush invocation f after its current request ended with `status`; `sent`
\* tells whether the request left the client at all.
afterSend(fl, req, status, sent) ==
  LET n == Len(fl.att) + 1
      err == IF Encodable(req.recs) THEN sendError(status, n) ELSE marshalError(n)
  IN [fl EXCEPT
        !.att = Append(fl.att, [path |-> req.path, recs |-> req.recs,
                                status |-> status, err |-> err, sent |-> sent]),
        !.lastErr = nextLastErr(fl.lastErr, err),
        !.pc = IF n < Len(Requests(fl.snap)) THEN "send" ELSE "done"]

\* A send whose request is not bound to c.ctx: it leaves the client also
\* after the cancellation.
SendStartUnbound(f) ==
  /\ f \in DOMAIN flushes
  /\ flushes[f].pc = "send"
  /\ flushes' = [flushes EXCEPT ![f] =
       IF ~Encodable(CurrentRequest(f).recs)
       THEN afterSend(flushes[f], CurrentRequest(f), NoResponse, FALSE)
       ELSE [flushes[f] EXCEPT !.pc = "wait"]]
  /\ UNCHANGED <<test, http, span, spanData, backend, unencodable, environ, cfg, newRet, config, buf, bufferMu, ctxDone, wg, worker, thr, appended, swapOrder, budget>>

\* send up to httpClient.Do: json.Marshal may fail; the request is bound to
\* c.ctx, and Do fails at once, sending nothing, when that context is already
\* cancelled.
SendStart(f) ==
  /\ f \in DOMAIN flushes
  /\ flushes[f].pc = "send"
  /\ flushes' = [flushes EXCEPT ![f] =
       IF ~Encodable(CurrentRequest(f).recs) \/ ctxDone
       THEN afterSend(flushes[f], CurrentRequest(f), NoResponse, FALSE)
       ELSE [flushes[f] EXCEPT !.pc = "wait"]]
  /\ UNCHANGED <<test, http, span, spanData, backend, unencodable, environ, cfg, newRet, config, buf, bufferMu, ctxDone, wg, worker, thr, appended, swapOrder, budget>>

\* httpClient.Do returns: a response with some status, or no response
\* (connection failure, timeout, or the context cancelled meanwhile).
SendFinish(f) ==
  /\ f \in DOMAIN flushes
  /\ flushes[f].pc = "wait"
  /\ \E status \in backend \cup {NoResponse} :
       flushes' = [flushes EXCEPT ![f] = afterSend(flushes[f], CurrentRequest(f), status, TRUE)]
  /\ UNCHANGED <<test, http, span, spanData, backend, unencodable, environ, cfg, newRet, config, buf, bufferMu, ctxDone, wg, worker, thr, appended, swapOrder, budget>>

\* The steps of a Flush invocation, whoever called it.
Flush(f) == FlushLock(f) \/ FlushSwap(f) \/ SendStart(f) \/ SendFinish(f)

\* The application calls Flush.
FlushCall(t) ==
  /\ thr[t].pc = "idle"
  /\ budget > 0
  /\ flushes' = Append(flushes, newFlush("manual", appended))
  /\ thr' = [thr EXCEPT ![t] = [pc |-> "flush", kind |-> "log", fl |-> Len(flushes) + 1]]
  /\ budget' = budget - 1
  /\ UNCHANGED <<test, http, span, spanData, backend, unencodable, environ, cfg, newRet, config, buf, bufferMu, ctxDone, wg, worker, appended, swapOrder>>

\* Flush returns lastErr to the application.
FlushReturn(t) ==
  /\ thr[t].pc = "flush"
  /\ flushes[thr[t].fl].pc = "done"
  /\ flushes' = [flushes EXCEPT ![thr[t].fl].returned = TRUE]
  /\ thr' = [thr EXCEPT ![t] = Idle]
  /\ UNCHANGED <<test, http, span, spanData, backend, unencodable, environ, cfg, newRet, config, buf, bufferMu, ctxDone, wg, worker, appended, swapOrder, budget>>

(* ------------------------------- Close -------------------------------- *)

\* c.cancel().  While Close waits, `fl` holds the number of records appended
\* when Close was called.
CloseCancel(t) ==
  /\ thr[t].pc = "idle"
  /\ budget > 0
  /\ ctxDone' = TRUE
  /\ thr' = [thr EXCEPT ![t] = [pc |-> "wgWait", kind |-> "log", fl |-> appended]]
  /\ budget' = budget - 1
  /\ UNCHANGED <<test, http, span, spanData, backend, unencodable, environ, cfg, newRet, config, buf, bufferMu, wg, worker, flushes, appended, swapOrder>>

\* A Close without c.wg.Wait().
CloseWithoutWait(t) ==
  /\ thr[t].pc = "wgWait"
  /\ flushes' = Append(flushes, newFlush("close", thr[t].fl))
  /\ thr' = [thr EXCEPT ![t] = [pc |-> "closeFlush", kind |-> "log", fl |-> Len(flushes) + 1]]
  /\ UNCHANGED <<test, http, span, spanData, backend, unencodable, environ, cfg, newRet, config, buf, bufferMu, ctxDone, wg, worker, appended, swapOrder, budget>>

\* A Close that also waits for every Flush started by an append.
CloseWaitAllFlushes(t) ==
  /\ thr[t].pc = "wgWait"
  /\ wg = 0
  /\ \A f \in DOMAIN flushes : flushes[f].origin = "size" => flushes[f].pc = "done"
  /\ flushes' = Append(flushes, newFlush("close", thr[t].fl))
  /\ thr' = [thr EXCEPT ![t] = [pc |-> "closeFlush", kind |-> "log", fl |-> Len(flushes) + 1]]
  /\ UNCHANGED <<test, http, span, spanData, backend, unencodable, environ, cfg, newRet, config, buf, bufferMu, ctxDone, wg, worker, appended, swapOrder, budget>>

\* c.wg.Wait() returns, and Close calls Flush.
CloseWait(t) ==
  /\ thr[t].pc = "wgWait"
  /\ wg = 0
  /\ flushes' = Append(flushes, newFlush("close", thr[t].fl))
  /\ thr' = [thr EXCEPT ![t] = [pc |-> "closeFlush", kind |-> "log", fl |-> Len(flushes) + 1]]
  /\ UNCHANGED <<test, http, span, spanData, backend, unencodable, environ, cfg, newRet, config, buf, bufferMu, ctxDone, wg, worker, appended, swapOrder, budget>>

\* `return c.Flush()`
CloseReturn(t) ==
  /\ thr[t].pc = "closeFlush"
  /\ flushes[thr[t].fl].pc = "done"
  /\ flushes' = [flushes EXCEPT ![thr[t].fl].returned = TRUE]
  /\ thr' = [thr EXCEPT ![t] = Idle]
  /\ UNCHANGED <<test, http, span, spanData, backend, unencodable, environ, cfg, newRet, config, buf, bufferMu, ctxDone, wg, worker, appended, swapOrder, budget>>

Close(t) == CloseCancel(t) \/ CloseWait(t) \/ CloseReturn(t)

(* ---------------------------- flushWorker ----------------------------- *)

\* `case <-ticker.C: _ = c.Flush()`.  Go's select may take this case also when
\* the context is already cancelled, if the ticker has fired.
WorkerTick ==
  /\ worker.pc = "select"
  /\ budget > 0
  /\ flushes' = Append(flushes, newFlush("timer", appended))
  /\ worker' = [pc |-> "flush", fl |-> Len(flushes) + 1]
  /\ budget' = budget - 1
  /\ UNCHANGED <<test, http, span, spanData, backend, unencodable, environ, cfg, newRet, config, buf, bufferMu, ctxDone, wg, thr, appended, swapOrder>>

\* A flushWorker that returns when its Flush returns an error.
WorkerFlushedStopOnError ==
  /\ worker.pc = "flush"
  /\ flushes[worker.fl].pc = "done"
  /\ flushes' = [flushes EXCEPT ![worker.fl].returned = TRUE]
  /\ worker' = IF flushes[worker.fl].lastErr # Nil
                 THEN [pc |-> "done", fl |-> 0] ELSE [pc |-> "select", fl |-> 0]
  /\ wg' = IF flushes[worker.fl].lastErr # Nil THEN wg - 1 ELSE wg
  /\ UNCHANGED <<test, http, span, spanData, backend, unencodable, environ, cfg, newRet, config, buf, bufferMu, ctxDone, thr, appended, swapOrder, budget>>

\* The worker's Flush has returned; its error is discarded.
WorkerFlushed ==
  /\ worker.pc = "flush"
  /\ flushes[worker.fl].pc = "done"
  /\ flushes' = [flushes EXCEPT ![worker.fl].returned = TRUE]
  /\ worker' = [pc |-> "select", fl |-> 0]
  /\ UNCHANGED <<test, http, span, spanData, backend, unencodable, environ, cfg, newRet, config, buf, bufferMu, ctxDone, wg, thr, appended, swapOrder, budget>>

\* A flushWorker that may return although the context is not cancelled.
WorkerExitUncancelled ==
  /\ worker.pc = "select"
  /\ worker' = [pc |-> "done", fl |-> 0]
  /\ wg' = wg - 1
  /\ UNCHANGED <<test, http, span, spanData, backend, unencodable, environ, cfg, newRet, config, buf, bufferMu, ctxDone, thr, flushes, appended, swapOrder, budget>>

\* A flushWorker that returns without wg.Done().
WorkerExitWithoutDone ==
  /\ worker.pc = "select"
  /\ ctxDone
  /\ worker' = [pc |-> "done", fl |-> 0]
  /\ UNCHANGED <<test, http, span, spanData, backend, unencodable, environ, cfg, newRet, config, buf, bufferMu, ctxDone, wg, thr, flushes, appended, swapOrder, budget>>

\* `case <-c.ctx.Done(): return`, with the deferred ticker.Stop() and wg.Done().
WorkerExit ==
  /\ worker.pc = "select"
  /\ ctxDone
  /\ worker' = [pc |-> "done", fl |-> 0]
  /\ wg' = wg - 1
  /\ UNCHANGED <<test, http, span, spanData, backend, unencodable, environ, cfg, newRet, config, buf, bufferMu, ctxDone, thr, flushes, appended, swapOrder, budget>>

flushWorker == WorkerTick \/ WorkerFlushed \/ WorkerExit

(* ---------------------------- specification --------------------------- *)

Next ==
  \/ \E t \in Threads : addLog(t)
  \/ \E t \in Threads : addSpan(t)
  \/ \E t \in Threads : addMetric(t)
  \/ \E t \in Threads : LogJob(t)
  \/ \E t \in Owners : FlushCall(t)
  \/ \E t \in Owners : FlushReturn(t)
  \/ \E t \in Owners : Close(t)
  \/ \E f \in 1..MaxOps : Flush(f)
  \/ flushWorker

Spec == Init /\ [][Next]_vars

\* What the Go runtime and the HTTP client guarantee: a goroutine that can take
\* its next step takes it (a call that has started goes on, a Flush goes on,
\* flushWorker goes on), and httpClient.Do returns, at the latest when
\* httpClient.Timeout expires.  Nothing makes the application start a call or
\* the ticker fire.
Fairness ==
  /\ \A f \in 1..MaxOps : WF_vars(Flush(f))
  /\ \A t \in Threads : WF_vars(\E k \in Kinds : addAppend(t, k) \/ addGo(t, k))
  /\ \A t \in Owners : WF_vars(FlushReturn(t) \/ CloseWait(t) \/ CloseReturn(t))
  /\ WF_vars(WorkerFlushed \/ WorkerExit)

FairSpec == Init /\ [][Next]_vars /\ Fairness

\* The same without any guarantee about the network: a goroutine inside the
\* locked region of an append or of a Flush goes on, and an append that has to
\* start a Flush starts it, but httpClient.Do need not ever return.
StallFairness ==
  /\ \A f \in 1..MaxOps : WF_vars(FlushSwap(f))
  /\ \A t \in Threads : WF_vars(\E k \in Kinds : addAppend(t, k) \/ addGo(t, k))

StallSpec == Init /\ [][Next]_vars /\ StallFairness

\* A client constructed with BatchSize 2 on which one record of each kind has
\* been appended, in the order log, span, metric, job: no buffer has reached
\* the threshold, so no Flush has been started.
InitLoaded ==
  /\ test = NoTest
  /\ http = NoRequests
  /\ span = NoSpan
  /\ spanData = <<>>
  /\ backend = Statuses
  /\ unencodable = {}
  /\ environ = [OMNIPULSE_URL |-> "", OMNIPULSE_INGEST_KEY |-> ""]
  /\ cfg = [ZeroConfig EXCEPT !.APIUrl = "http://backend", !.IngestKey = "key",
                              !.BatchSize = 2]
  /\ newRet = Returned(TRUE, Nil)
  /\ config = withDefaults(withEnviron(cfg, environ))
  /\ buf = [k \in Kinds |->
              <<[id |-> CHOOSE i \in 1..4 : KindOrder[i] = k, kind |-> k]>>]
  /\ bufferMu = Unlocked
  /\ ctxDone = FALSE
  /\ wg = 1
  /\ worker = [pc |-> "select", fl |-> 0]
  /\ thr = [t \in Threads |-> Idle]
  /\ flushes = <<>>
  /\ appended = 4
  /\ swapOrder = <<>>
  /\ budget = LoadedOps

SpecLoaded == InitLoaded /\ [][Next]_vars

\* The client of InitLoaded in front of a backend that answers every request
\* with one given status code, and with at most one of the buffered log, span
\* and metric records impossible to encode (a job always encodes).
InitSend ==
  /\ test = NoTest
  /\ http = NoRequests
  /\ span = NoSpan
  /\ spanData = <<>>
  /\ backend \in {{s} : s \in StatusCodes}
  /\ unencodable \in {{}} \cup {{i} : i \in 1..3}
  /\ environ = [OMNIPULSE_URL |-> "", OMNIPULSE_INGEST_KEY |-> ""]
  /\ cfg = [ZeroConfig EXCEPT !.APIUrl = "http://backend", !.IngestKey = "key",
                              !.BatchSize = 2]
  /\ newRet = Returned(TRUE, Nil)
  /\ config = withDefaults(withEnviron(cfg, environ))
  /\ buf = [k \in Kinds |->
              <<[id |-> CHOOSE i \in 1..4 : KindOrder[i] = k, kind |-> k]>>]
  /\ bufferMu = Unlocked
  /\ ctxDone = FALSE
  /\ wg = 1
  /\ worker = [pc |-> "select", fl |-> 0]
  /\ thr = [t \in Threads |-> Idle]
  /\ flushes = <<>>
  /\ appended = 4
  /\ swapOrder = <<>>
  /\ budget = LoadedOps

SpecSend == InitSend /\ [][Next]_vars

\* The application works on one Span of a client that New has returned.
InitSpan ==
  /\ test = NoTest
  /\ http = NoRequests
  /\ span = StartSpan
  /\ spanData = <<>>
  /\ backend = Statuses
  /\ unencodable = {}
  /\ environ = [OMNIPULSE_URL |-> "", OMNIPULSE_INGEST_KEY |-> ""]
  /\ cfg \in {[ZeroConfig EXCEPT !.APIUrl = "http://backend", !.IngestKey = "key",
                                  !.BatchSize = b] : b \in 1..MaxBatchSize}
  /\ newRet = Returned(TRUE, Nil)
  /\ config = withDefaults(withEnviron(cfg, environ))
  /\ buf = makeBuffers
  /\ bufferMu = Unlocked
  /\ ctxDone = FALSE
  /\ wg = 1
  /\ worker = [pc |-> "select", fl |-> 0]
  /\ thr = [t \in Threads |-> Idle]
  /\ flushes = <<>>
  /\ appended = 0
  /\ swapOrder = <<>>
  /\ budget = MaxOps

\* Span.SetAttribute: a write to the map of the Span.
SetAttribute ==
  /\ budget > 0
  /\ \E value \in AttributeValues :
       span' = [span EXCEPT !.Attributes = mapSet(@, "key", value)]
  /\ budget' = budget - 1
  /\ UNCHANGED <<test, http, spanData, backend, unencodable, environ, cfg, newRet, config, buf, bufferMu, ctxDone, wg, worker, thr, flushes, appended, swapOrder>>

\* Span.SetStatus: the two string fields of the Span are assigned.
SetStatus ==
  /\ budget > 0
  /\ \E st \in SpanStatuses :
       span' = [span EXCEPT !.Status = st.Status, !.StatusMsg = st.StatusMsg]
  /\ budget' = budget - 1
  /\ UNCHANGED <<test, http, spanData, backend, unencodable, environ, cfg, newRet, config, buf, bufferMu, ctxDone, wg, worker, thr, flushes, appended, swapOrder>>

\* Span.AddEvent: append to s.Events.  Where the array has room the element
\* is written behind the elements a SpanData can see; where it has not, the
\* Span gets a new array and the old one is written no more.
AddEvent ==
  /\ budget > 0
  /\ \E name \in EventNames :
       span' = [span EXCEPT !.Events = Append(@, name)]
  /\ budget' = budget - 1
  /\ UNCHANGED <<test, http, spanData, backend, unencodable, environ, cfg, newRet, config, buf, bufferMu, ctxDone, wg, worker, thr, flushes, appended, swapOrder>>

\* Span.End: the SpanData is built and addSpan appends it, under bufferMu,
\* and starts a Flush at the threshold.
End ==
  /\ appendWork("span") <= budget
  /\ bufferMu = Unlocked
  /\ LET rec == [id |-> appended + 1, kind |-> "span"]
         nb == Append(buf["span"], rec)
     IN /\ buf' = [buf EXCEPT !["span"] = nb]
        /\ flushes' = IF shouldFlush(Len(nb))
                         THEN Append(flushes, newFlush("size", appended + 1))
                         ELSE flushes
  /\ appended' = appended + 1
  /\ spanData' = Append(spanData, [data |-> endData(span),
                                     appendedAs |-> spanValue(endData(span), span)])
  /\ budget' = budget - appendWork("span")
  /\ UNCHANGED <<test, http, span, backend, unencodable, environ, cfg, newRet, config, bufferMu, ctxDone, wg, worker, thr, swapOrder>>

NextSpan ==
  \/ SetAttribute
  \/ SetStatus
  \/ AddEvent
  \/ End
  \/ \E f \in 1..MaxOps : Flush(f)

SpecSpan == InitSpan /\ [][NextSpan]_vars

\* The paths the middleware passes to the wrapped handler and does nothing else
\* for.
skipPathHealthOnly(path) == path = "/health" \/ path = "/healthz"
skipPath(path) ==
  path = "/health" \/ path = "/healthz" \/ path = "/ready" \/ path = "/readyz"

\* fmt.Sprintf("%s %s", r.Method, path)
spanName(method, path) == method \o " " \o path

\* The HTTP server serves requests through the middleware of a client that
\* New has returned.
InitHTTP ==
  /\ test = NoTest
  /\ http = NoRequests
  /\ span = NoSpan
  /\ spanData = <<>>
  /\ backend = Statuses
  /\ unencodable = {}
  /\ environ = [OMNIPULSE_URL |-> "", OMNIPULSE_INGEST_KEY |-> ""]
  /\ cfg \in {[ZeroConfig EXCEPT !.APIUrl = "http://backend", !.IngestKey = "key",
                                  !.BatchSize = b] : b \in 1..MaxBatchSize}
  /\ newRet = Returned(TRUE, Nil)
  /\ config = withDefaults(withEnviron(cfg, environ))
  /\ buf = makeBuffers
  /\ bufferMu = Unlocked
  /\ ctxDone = FALSE
  /\ wg = 1
  /\ worker = [pc |-> "select", fl |-> 0]
  /\ thr = [t \in Threads |-> Idle]
  /\ flushes = <<>>
  /\ appended = 0
  /\ swapOrder = <<>>
  /\ budget = HTTPOps

\* The request the middleware is serving.
Request == http.served[Len(http.served)]

\* addSpan and addMetric as the middleware calls them: the record is appended
\* under bufferMu and a Flush is started at the threshold.  The request keeps
\* what the middleware appended for it.
middlewareAdd(k, name, pc) ==
  /\ appendWork(k) <= budget
  /\ bufferMu = Unlocked
  /\ LET rec == [id |-> appended + 1, kind |-> k]
         nb == Append(buf[k], rec)
     IN /\ buf' = [buf EXCEPT ![k] = nb]
        /\ flushes' = IF shouldFlush(Len(nb))
                         THEN Append(flushes, newFlush("size", appended + 1))
                         ELSE flushes
  /\ appended' = appended + 1
  /\ http' = [pc |-> pc,
              served |-> [http.served EXCEPT ![Len(http.served)].appends =
                            Append(@, [id |-> appended + 1, kind |-> k, name |-> name,
                                       afterReturn |-> Request.returned])]]
  /\ budget' = budget - appendWork(k)
  /\ UNCHANGED <<test, span, spanData, backend, unencodable, environ, cfg, newRet, config, bufferMu, ctxDone, wg, worker, thr, swapOrder>>

\* A request reaches the middleware: a health check goes to the wrapped
\* handler as it is, for any other request a span is started.
ServeHTTP ==
  /\ http.pc = "idle"
  /\ Len(http.served) < MaxRequests
  /\ \E method \in Methods, path \in Paths :
       http' = [pc |-> IF skipPath(path) THEN "skip" ELSE "next",
                served |-> Append(http.served,
                  [method |-> method, path |-> path, statusCode |-> 200,
                   returned |-> FALSE, appends |-> <<>>])]
  /\ UNCHANGED <<test, span, spanData, backend, unencodable, environ, cfg, newRet, config, buf, bufferMu, ctxDone, wg, worker, thr, flushes, appended, swapOrder, budget>>

\* next.ServeHTTP returns.
HandlerReturn ==
  /\ http.pc \in {"skip", "next"}
  /\ \E code \in HandlerStatusCodes :
       http' = [pc |-> IF http.pc = "skip" THEN "idle" ELSE "end",
                served |-> [http.served EXCEPT ![Len(http.served)].statusCode = code,
                                               ![Len(http.served)].returned = TRUE]]
  /\ UNCHANGED <<test, span, spanData, backend, unencodable, environ, cfg, newRet, config, buf, bufferMu, ctxDone, wg, worker, thr, flushes, appended, swapOrder, budget>>

\* span.End()
MiddlewareEnd ==
  /\ http.pc = "end"
  /\ middlewareAdd("span", spanName(Request.method, Request.path), "duration")

\* client.Metrics().RecordDuration("http.request.duration", ...)
MiddlewareDuration ==
  /\ http.pc = "duration"
  /\ middlewareAdd("metric", durationMetric, "count")

\* client.Metrics().Increment("http.request.count", ...)
MiddlewareCount ==
  /\ http.pc = "count"
  /\ middlewareAdd("metric", countMetric, "idle")

HTTPMiddleware ==
  ServeHTTP \/ HandlerReturn \/ MiddlewareEnd \/ MiddlewareDuration \/ MiddlewareCount

NextHTTP ==
  \/ HTTPMiddleware
  \/ \E f \in 1..MaxOps : Flush(f)

SpecHTTP == InitHTTP /\ [][NextHTTP]_vars

\* Test, first half: c.logger.Info appends the test entry through addLog,
\* which starts a Flush at the threshold.
TestLog(t) ==
  /\ thr[t].pc = "idle"
  /\ test = NoTest
  /\ appendWork("log") + 1 <= budget
  /\ bufferMu = Unlocked
  /\ LET rec == [id |-> appended + 1, kind |-> "log"]
         nb == Append(buf["log"], rec)
     IN /\ buf' = [buf EXCEPT !["log"] = nb]
        /\ flushes' = IF shouldFlush(Len(nb))
                         THEN Append(flushes, newFlush("size", appended + 1))
                         ELSE flushes
  /\ appended' = appended + 1
  /\ test' = [entry |-> appended + 1, fl |-> 0]
  /\ thr' = [thr EXCEPT ![t] = [pc |-> "test", kind |-> "log", fl |-> 0]]
  /\ budget' = budget - (appendWork("log") + 1)
  /\ UNCHANGED <<http, span, spanData, backend, unencodable, environ, cfg, newRet, config, bufferMu, ctxDone, wg, worker, swapOrder>>

\* Test, second half: return c.Flush().
TestFlush(t) ==
  /\ thr[t].pc = "test"
  /\ flushes' = Append(flushes, newFlush("manual", appended))
  /\ test' = [test EXCEPT !.fl = Len(flushes) + 1]
  /\ thr' = [thr EXCEPT ![t] = [pc |-> "flush", kind |-> "log", fl |-> Len(flushes) + 1]]
  /\ UNCHANGED <<http, span, spanData, backend, unencodable, environ, cfg, newRet, config, buf, bufferMu, ctxDone, wg, worker, appended, swapOrder, budget>>

Test(t) == TestLog(t) \/ TestFlush(t)

\* The application also calls Test, once.
NextTest ==
  \/ Next
  \/ \E t \in Owners : Test(t)

SpecTest == Init /\ [][NextTest]_vars

\* A process that is about to call New, with any configuration and environment.
InitNew ==
  /\ test = NoTest
  /\ http = NoRequests
  /\ span = NoSpan
  /\ spanData = <<>>
  /\ backend = Statuses
  /\ unencodable = {}
  /\ environ \in [OMNIPULSE_URL : EnvUrls, OMNIPULSE_INGEST_KEY : EnvIngestKeys]
  /\ cfg \in [APIUrl : Urls, IngestKey : IngestKeys, Environment : Environments,
              BatchSize : 0..MaxBatchSize, FlushInterval : FlushIntervals,
              Timeout : Timeouts]
  /\ newRet = Called
  /\ config = ZeroConfig
  /\ buf = NoBuffers
  /\ bufferMu = Unlocked
  /\ ctxDone = FALSE
  /\ wg = 0
  /\ worker = NoWorker
  /\ thr = [t \in Threads |-> Idle]
  /\ flushes = <<>>
  /\ appended = 0
  /\ swapOrder = <<>>
  /\ budget = 0

\* New: the fallbacks to the environment, the test of the required fields,
\* the defaults, the client with its four buffers, wg.Add(1) and
\* `go c.flushWorker()`.
New ==
  /\ newRet = Called
  /\ LET c == withEnviron(cfg, environ)
     IN IF missingRequired(c)
        THEN /\ newRet' = Returned(FALSE, ErrRequired)
             /\ UNCHANGED <<config, buf, ctxDone, wg, worker>>
        ELSE /\ config' = withDefaults(c)
             /\ buf' = makeBuffers
             /\ ctxDone' = FALSE
             /\ wg' = wg + 1
             /\ worker' = [pc |-> "select", fl |-> 0]
             /\ newRet' = Returned(TRUE, Nil)
  /\ UNCHANGED <<test, http, span, spanData, backend, unencodable, environ, cfg, bufferMu, thr, flushes, appended, swapOrder, budget>>

NextNew == New

SpecNew == InitNew /\ [][NextNew]_vars

TypeOK ==
  /\ config.BatchSize \in 1..MaxBatchSize
  /\ appended \in 0..(MaxOps + 4)
  /\ budget \in 0..MaxOps
  /\ wg \in 0..1
  /\ ctxDone \in BOOLEAN


(* ------------------------- derived notions ---------------------------- *)

FlushIds == 1..Len(flushes)

\* Flush invocation f has performed its swap.
Swapped(f) == flushes[f].pc \notin {"lock", "swap"}

\* Flush invocation f has swapped and has not yet returned from its last send.
InFlight(f) == flushes[f].pc \in {"send", "wait"}

\* The records of the snapshot of f, and the records in the live buffers.
SnapIds(f) == UNION {Ids(flushes[f].snap[k]) : k \in Kinds}
LiveIds == UNION {Ids(buf[k]) : k \in Kinds}
NonEmptySnap(f) == SnapIds(f) # {}

\* The four buffers of b, one after the other.
Flat(b) == b["log"] \o b["span"] \o b["metric"] \o b["job"]

\* Every place that holds a record: the live buffers, then the snapshots of
\* the first n Flush invocations.
RECURSIVE Places(_)
Places(n) == IF n = 0 THEN Flat(buf) ELSE Places(n - 1) \o Flat(flushes[n].snap)

\* The requests f has handed to the transport so far: the attempts that have
\* ended and the one that is in flight.
Handed(f) ==
  SubSeq(Requests(flushes[f].snap), 1,
         Len(flushes[f].att) + (IF flushes[f].pc = "wait" THEN 1 ELSE 0))

\* The payloads of a sequence of requests, one after the other.
RECURSIVE Payloads(_)
Payloads(reqs) == IF reqs = <<>> THEN <<>> ELSE Head(reqs).recs \o Payloads(Tail(reqs))

\* Every record handed to the transport by the first n Flush invocations.
RECURSIVE HandOvers(_)
HandOvers(n) == IF n = 0 THEN <<>> ELSE HandOvers(n - 1) \o Payloads(Handed(n))

\* No record occurs twice in s.
NoDuplicate(s) == Cardinality(Ids(s)) = Len(s)

\* Position of f in the order of the swaps.
SwapPos(f) == CHOOSE i \in 1..Len(swapOrder) : swapOrder[i] = f

(* ------------------------------- claims ------------------------------- *)

\* C1: under every interleaving of appends and of manual, size-triggered,
\* scheduler and Close flushes, each appended record is in at most one place,
\* a live buffer or the snapshot of one Flush, and it is handed to the
\* transport at most once.
C1_AtMostOnePlace ==
  /\ NoDuplicate(Places(Len(flushes)))
  /\ NoDuplicate(HandOvers(Len(flushes)))

\* One Flush has a request in flight, another has swapped too, and a record
\* waits in a live buffer.
C1_Witness ==
  \E f, g \in FlushIds :
    /\ f # g
    /\ flushes[f].pc = "wait" /\ Swapped(g)
    /\ LiveIds # {}

\* C2: the snapshot of every Flush is exactly the set of records appended
\* before its swap and not taken by an earlier swap, in the buffer of their
\* kind; the snapshots of two flushes are disjoint, and every appended record
\* is in a live buffer or in a snapshot.
C2_SnapshotsPartition ==
  /\ \A g \in FlushIds : Swapped(g) =>
       /\ SnapIds(g) = (1..flushes[g].swapAt)
                         \ UNION {SnapIds(h) : h \in {x \in FlushIds :
                                      Swapped(x) /\ SwapPos(x) < SwapPos(g)}}
       /\ \A k \in Kinds : \A i \in 1..Len(flushes[g].snap[k]) :
            flushes[g].snap[k][i].kind = k
  /\ \A f, g \in FlushIds : f # g => SnapIds(f) \cap SnapIds(g) = {}
  /\ 1..appended = LiveIds \cup UNION {SnapIds(f) : f \in FlushIds}

\* A timer-triggered Flush and another Flush in flight together, each with a
\* non-empty snapshot, the second holding a record appended between the swaps.
C2_Witness ==
  \E f, g \in FlushIds :
    /\ flushes[f].origin = "timer" /\ flushes[g].origin # "timer"
    /\ InFlight(f) /\ InFlight(g)
    /\ NonEmptySnap(f) /\ NonEmptySnap(g)

\* An attempt that ended in failure: no response, or a status of 400 or above.
Failed(a) == a.status = NoResponse \/ a.status >= 400

\* Every request that reached the backend was answered with a success status.
BackendHealthy ==
  \A f \in FlushIds : \A i \in 1..Len(flushes[f].att) :
    flushes[f].att[i].sent => ~Failed(flushes[f].att[i])

\* Record r has been delivered: it was in a request that got a success status.
Delivered(r) ==
  \E f \in FlushIds : \E i \in 1..Len(flushes[f].att) :
    r \in Ids(flushes[f].att[i].recs) /\ ~Failed(flushes[f].att[i])

\* The Flush invocations of Close, and those that Close has returned from.
CloseFlushes == {f \in FlushIds : flushes[f].origin = "close"}
ClosesReturned == {f \in CloseFlushes : flushes[f].returned}

\* C3: with a backend that answers every request it gets with a success
\* status, every record appended before Close was called has been delivered
\* when Close returns, and Close returns no error.
C3_CloseDeliversAll ==
  \A f \in ClosesReturned :
    BackendHealthy =>
      /\ flushes[f].lastErr = Nil
      /\ \A r \in 1..flushes[f].before : Delivered(r)

\* C4 as stated: when Close returns, its final Flush has made all its attempts
\* and all four buffers have length 0.
C4_CloseLeavesBuffersEmpty ==
  [][\A t \in Owners :
       (thr[t].pc = "closeFlush" /\ thr'[t].pc = "idle") =>
          /\ flushes[thr[t].fl].pc = "done"
          /\ \A k \in Kinds : Len(buf'[k]) = 0]_vars

\* C4 as amended: Close returns only after its final Flush has swapped and has
\* made every attempt of its snapshot; from then on no record appended before
\* that swap is in a buffer, whatever the outcome of the attempts, and all four
\* buffers have length 0 as long as nothing has been appended after the swap.
C4_CloseDrains ==
  \A f \in ClosesReturned :
    /\ flushes[f].pc = "done"
    /\ \E i \in 1..Len(swapOrder) : swapOrder[i] = f
    /\ Len(flushes[f].att) = Len(Requests(flushes[f].snap))
    /\ flushes[f].before <= flushes[f].swapAt
    /\ \A r \in LiveIds : r > flushes[f].swapAt
    /\ appended = flushes[f].swapAt => \A k \in Kinds : Len(buf[k]) = 0

\* Close has returned after a final Flush that took records and failed to
\* deliver them.
C4_Witness ==
  \E f \in ClosesReturned :
    /\ NonEmptySnap(f)
    /\ flushes[f].lastErr # Nil
    /\ appended = flushes[f].swapAt

\* C5: Close cancels first, then waits for flushWorker to terminate, and only
\* then runs one Flush; flushWorker has returned from all its flushes, and has
\* swapped before, when the Flush of Close exists.
C5_CloseOrder ==
  /\ \A t \in Threads :
       /\ thr[t].pc \in {"wgWait", "closeFlush"} => ctxDone
       /\ thr[t].pc = "closeFlush" =>
            /\ worker.pc = "done" /\ wg = 0
            /\ thr[t].fl \in CloseFlushes \ ClosesReturned
  /\ Cardinality(CloseFlushes \ ClosesReturned)
       = Cardinality({t \in Threads : thr[t].pc = "closeFlush"})
  /\ \A g \in CloseFlushes :
       /\ worker.pc = "done" /\ ctxDone
       /\ \A f \in FlushIds : flushes[f].origin = "timer" =>
            /\ flushes[f].returned
            /\ Swapped(g) => SwapPos(f) < SwapPos(g)

\* Close has run its Flush to the end after flushWorker had flushed records.
C5_Witness ==
  \E f \in FlushIds : \E g \in ClosesReturned :
    flushes[f].origin = "timer" /\ NonEmptySnap(f) /\ NonEmptySnap(g)

\* C6: a Flush, of Close too, that finds all four buffers empty makes no
\* request and returns no error.
C6_EmptyFlushNoop ==
  \A f \in FlushIds :
    (Swapped(f) /\ ~NonEmptySnap(f)) =>
       /\ flushes[f].pc = "done"
       /\ flushes[f].att = <<>>
       /\ flushes[f].lastErr = Nil

\* A manual Flush and a Close have both returned from empty buffers.
C6_Witness ==
  /\ \E f \in FlushIds :
       flushes[f].origin = "manual" /\ flushes[f].returned /\ ~NonEmptySnap(f)
  /\ \E g \in ClosesReturned : ~NonEmptySnap(g)
  /\ appended = 0

\* C7: after a failed attempt the Flush that made it has a non-nil error to
\* return, the records of the batch are in no buffer and in no other request
\* of any Flush, and the buffer of that kind is empty while nothing has been
\* appended since the swap.
C7_FailureDrops ==
  \A f \in FlushIds : \A i \in 1..Len(flushes[f].att) :
    LET a == flushes[f].att[i]
    IN Failed(a) =>
         /\ flushes[f].lastErr # Nil
         /\ Ids(a.recs) \cap LiveIds = {}
         /\ appended = flushes[f].swapAt => buf[a.recs[1].kind] = <<>>
         /\ \A g \in FlushIds : \A j \in 1..Len(Handed(g)) :
              <<g, j>> # <<f, i>> => Ids(Handed(g)[j].recs) \cap Ids(a.recs) = {}

\* A manual Flush has returned an error for a batch the backend answered with
\* status 500, and a later Flush has swapped since.
C7_Witness ==
  \E f, g \in FlushIds :
    /\ flushes[f].origin = "manual" /\ flushes[f].returned
    /\ \E i \in 1..Len(flushes[f].att) : flushes[f].att[i].status = 500
    /\ Swapped(g) /\ SwapPos(f) < SwapPos(g) /\ NonEmptySnap(g)

\* The kinds of the records appended so far.
AppendedKinds ==
  LET all == Places(Len(flushes)) IN {all[i].kind : i \in 1..Len(all)}

\* C8: without a tick, a manual Flush or a Close, appending N < BatchSize
\* records of one kind leaves exactly N records in the buffer of that kind and
\* starts no Flush, hence no request.
C8_NoFlushBelowThreshold ==
  \A k \in Kinds :
    ( /\ \A f \in FlushIds : flushes[f].origin = "size"
      /\ \A t \in Threads : thr[t].pc \in {"idle", "locked", "go"}
      /\ worker.pc = "select" /\ ~ctxDone
      /\ AppendedKinds \subseteq {k}
      /\ appended < config.BatchSize )
    => /\ Len(buf[k]) = appended
       /\ flushes = <<>>
       /\ \A t \in Threads : thr[t].pc # "go"

\* BatchSize - 1 >= 1 records have been appended and the appends have returned.
C8_Witness ==
  /\ appended >= 1
  /\ appended + 1 = config.BatchSize
  /\ \A t \in Threads : thr[t].pc = "idle"
  /\ flushes = <<>>

\* The endpoint of each kind.
EndpointOf ==
  [log |-> "/api/ingest/logs", span |-> "/api/ingest/traces",
   metric |-> "/api/ingest/app-metrics", job |-> "/api/ingest/app-job"]

\* C10: every request of a Flush goes to the endpoint of the kind of the
\* records it carries, and a Flush that has returned has called the endpoint
\* of logs, spans and metrics once if its snapshot has records of that kind
\* and not at all otherwise, and the endpoint of jobs once per job.
C10_EndpointRouting ==
  \A f \in FlushIds :
    /\ \A i \in 1..Len(Handed(f)) : \A j \in 1..Len(Handed(f)[i].recs) :
         Handed(f)[i].path = EndpointOf[Handed(f)[i].recs[j].kind]
    /\ flushes[f].pc = "done" =>
         \A k \in Kinds :
           Cardinality({i \in 1..Len(flushes[f].att) :
                          flushes[f].att[i].path = EndpointOf[k]})
             = IF k = "job" THEN Len(flushes[f].snap[k])
               ELSE IF Len(flushes[f].snap[k]) > 0 THEN 1 ELSE 0

\* A Flush has returned whose snapshot held one record of each kind.
C10_Witness ==
  \E f \in FlushIds :
    /\ flushes[f].pc = "done"
    /\ \A k \in Kinds : Len(flushes[f].snap[k]) = 1
    /\ Len(flushes[f].att) = 4

\* The number of requests handed to the transport for `path` by all flushes.
HandedTo(path) ==
  Cardinality({<<f, i>> \in FlushIds \X (1..(MaxOps + 4)) :
                 i <= Len(Handed(f)) /\ Handed(f)[i].path = path})

\* Starting from empty buffers exactly BatchSize records have been appended,
\* all of kind k, and the buffer of kind k holds them.
AtThreshold(k) ==
  /\ appended = config.BatchSize
  /\ Len(buf[k]) = config.BatchSize

\* The buffer of kind k is empty again, and one request has gone to the
\* endpoint of kind k and has ended.
FlushedOnce(k) ==
  /\ buf[k] = <<>>
  /\ HandedTo(EndpointOf[k]) = 1
  /\ \A f \in FlushIds : flushes[f].pc = "done"

\* C9: once exactly BatchSize records of kind log, span or metric have been
\* appended to empty buffers, then, with no further call needed, the buffer
\* of that kind gets empty and exactly one request is made to the endpoint of
\* that kind, and it stays so until another record is appended.
C9_ThresholdFlushes ==
  \A k \in {"log", "span", "metric"} :
    [](AtThreshold(k) => <>[](FlushedOnce(k) \/ appended > config.BatchSize))

\* A size-triggered Flush has taken BatchSize >= 2 records of one kind and has
\* made its one request.
C9_Witness ==
  \E k \in {"log", "span", "metric"} : \E f \in FlushIds :
    /\ flushes[f].origin = "size"
    /\ config.BatchSize >= 2
    /\ Len(flushes[f].snap[k]) = config.BatchSize
    /\ appended = config.BatchSize
    /\ FlushedOnce(k)

\* The goroutine that holds bufferMu is inside the locked region of an append
\* or of a Flush: between Lock and Unlock, where nothing is sent.
LockedRegion(h) ==
  \/ h[1] = "thread" /\ thr[h[2]].pc = "locked"
  \/ h[1] = "flush" /\ h[2] \in FlushIds /\ flushes[h[2]].pc = "swap"

\* The number of times Flush invocation f has swapped the buffers.
SwapCount(f) == Cardinality({i \in 1..Len(swapOrder) : swapOrder[i] = f})

\* C11: whoever holds bufferMu is between the Lock and the Unlock of an append
\* or of the swap of a Flush; a Flush that prepares, makes or has made a
\* request does not hold the lock: it released the lock at its swap, before
\* its first attempt, and it took the lock once only.
C11_NoLockDuringDelivery ==
  /\ bufferMu # Unlocked => LockedRegion(bufferMu)
  /\ \A f \in FlushIds :
       /\ Swapped(f) => bufferMu # <<"flush", f>> /\ SwapCount(f) = 1
       /\ ~Swapped(f) => flushes[f].att = <<>> /\ SwapCount(f) = 0

\* A Flush waits for the answer to a request while an append holds the lock.
C11_Witness ==
  \E f \in FlushIds : \E t \in Threads :
    /\ flushes[f].pc = "wait"
    /\ bufferMu = <<"thread", t>>

\* C12: an append that has the lock adds its record, releases the lock and
\* returns, and the lock it may have to wait for is always released again,
\* even if no request of any Flush is ever answered; the Flush an append
\* starts at the threshold is a new invocation that has not begun when the
\* append returns.
C12_AppendNeverWaits ==
  /\ \A t \in Threads : (thr[t].pc \in {"locked", "go"}) ~> (thr[t].pc = "idle")
  /\ (bufferMu # Unlocked) ~> (bufferMu = Unlocked)
  /\ [][\A t \in Threads :
          (thr[t].pc = "go" /\ thr'[t].pc # "go") =>
             /\ thr'[t].pc = "idle"
             /\ Len(flushes') = Len(flushes) + 1
             /\ flushes'[Len(flushes')].origin = "size"
             /\ flushes'[Len(flushes')].pc = "lock"]_vars

\* The append that reached the threshold has returned, the Flush it started
\* waits for an answer, and a later append has completed meanwhile.
C12_Witness ==
  \E f \in FlushIds :
    /\ flushes[f].origin = "size" /\ flushes[f].pc = "wait"
    /\ \E r \in LiveIds : r > flushes[f].swapAt
    /\ \A t \in Threads : thr[t].pc = "idle"

\* The position of kind k in the order Flush processes the kinds.
KindPos(k) == CHOOSE i \in 1..4 : KindOrder[i] = k

\* The attempts of f that failed, by position.
FailedAttempts(f) == {i \in 1..Len(flushes[f].att) : Failed(flushes[f].att[i])}

\* The largest element of a non-empty set of numbers.
Last(S) == CHOOSE i \in S : \A j \in S : j <= i

\* C13: a Flush attempts the requests of its snapshot in the order logs,
\* spans, metrics, jobs, one per non-empty kind and one per job, whether or
\* not earlier attempts failed; its error is nil exactly when none of its
\* attempts failed, and otherwise the error of the last attempt that failed.
C13_IndependentKinds ==
  \A f \in FlushIds :
    LET att == flushes[f].att
        reqs == Requests(flushes[f].snap)
    IN /\ Len(att) <= Len(reqs)
       /\ \A i \in 1..Len(att) :
            /\ att[i].path = reqs[i].path /\ att[i].recs = reqs[i].recs
            /\ att[i].err # Nil <=> Failed(att[i])
       /\ \A i, j \in 1..Len(reqs) :
            i < j => KindPos(reqs[i].recs[1].kind) <= KindPos(reqs[j].recs[1].kind)
       /\ \A k \in Kinds : flushes[f].snap[k] # <<>> =>
            \E i \in 1..Len(reqs) : reqs[i].recs[1].kind = k
       /\ flushes[f].pc = "done" => Len(att) = Len(reqs)
       /\ flushes[f].lastErr = Nil <=> FailedAttempts(f) = {}
       /\ FailedAttempts(f) # {} =>
            flushes[f].lastErr = att[Last(FailedAttempts(f))].err

\* A Flush has returned whose first attempt failed and whose last attempt
\* succeeded: it returns the error of the first.
C13_Witness ==
  \E f \in FlushIds :
    /\ flushes[f].pc = "done"
    /\ Len(flushes[f].att) >= 2
    /\ Failed(flushes[f].att[1])
    /\ ~Failed(flushes[f].att[Len(flushes[f].att)])
    /\ flushes[f].lastErr = flushes[f].att[1].err

\* The endpoint or the ingest key is empty in the configuration and in the
\* environment as well.
StillMissing ==
  \/ cfg.APIUrl = "" /\ environ.OMNIPULSE_URL = ""
  \/ cfg.IngestKey = "" /\ environ.OMNIPULSE_INGEST_KEY = ""

\* C14: New returns the configuration error exactly when the endpoint URL or
\* the ingest key is empty in the configuration and in the environment; then
\* it returns no client and there is no scheduler task; otherwise it returns,
\* without error, a client with four empty buffers whose scheduler runs.
C14_NewValidates ==
  /\ newRet.pc = "called" => wg = 0 /\ worker = NoWorker
  /\ newRet.pc = "returned" =>
       /\ newRet.err # Nil <=> StillMissing
       /\ newRet.err # Nil =>
            /\ newRet.err = ErrRequired
            /\ ~newRet.client
            /\ buf = NoBuffers
            /\ wg = 0 /\ worker = NoWorker
       /\ newRet.err = Nil =>
            /\ newRet.client
            /\ DOMAIN buf = {"log", "span", "metric", "job"}
            /\ \A k \in DOMAIN buf : Len(buf[k]) = 0
            /\ wg = 1 /\ worker.pc = "select" /\ ~ctxDone

\* New has failed for a configuration without URL although the ingest key
\* was there, taken from the environment.
C14_Witness ==
  /\ newRet.pc = "returned" /\ newRet.err = ErrRequired
  /\ cfg.APIUrl = "" /\ environ.OMNIPULSE_URL = ""
  /\ cfg.IngestKey = "" /\ environ.OMNIPULSE_INGEST_KEY # ""

\* C15: the client New returns has batch size 100, flush interval 5 seconds,
\* network timeout 5 seconds and environment "production" where the caller
\* left the parameter at zero or empty, and the caller's value otherwise.
C15_Defaults ==
  (newRet.pc = "returned" /\ newRet.client) =>
     /\ config.BatchSize = (IF cfg.BatchSize = 0 THEN 100 ELSE cfg.BatchSize)
     /\ config.FlushInterval = (IF cfg.FlushInterval = 0 THEN 5 ELSE cfg.FlushInterval)
     /\ config.Timeout = (IF cfg.Timeout = 0 THEN 5 ELSE cfg.Timeout)
     /\ config.Environment
          = (IF cfg.Environment = "" THEN "production" ELSE cfg.Environment)

\* New has returned a client for a configuration that set the flush interval
\* and the environment and left the batch size and the timeout unset.
C15_Witness ==
  /\ newRet.pc = "returned" /\ newRet.client
  /\ cfg.BatchSize = 0 /\ cfg.Timeout = 0
  /\ cfg.FlushInterval # 0 /\ cfg.Environment # ""

\* C16: flushWorker is waiting in its select, inside a Flush it called for a
\* tick, or terminated, and nothing else; from waiting it goes to flushing or
\* to terminated, from flushing back to waiting only, whatever error that
\* Flush returned, and terminated is left no more; it terminates only when
\* the context has been cancelled.
C16_SchedulerStates ==
  /\ [](worker.pc \in {"select", "flush", "done"})
  /\ [](worker.pc = "flush" =>
          /\ worker.fl \in FlushIds
          /\ flushes[worker.fl].origin = "timer"
          /\ ~flushes[worker.fl].returned
          /\ flushes[worker.fl].pc = "done" => ENABLED WorkerFlushed)
  /\ [][/\ worker.pc = "select" => worker'.pc \in {"select", "flush", "done"}
        /\ worker.pc = "flush" => worker'.pc \in {"flush", "select"}
        /\ worker.pc = "done" => worker'.pc = "done"
        /\ (worker.pc # "done" /\ worker'.pc = "done") => ctxDone
        /\ (worker.pc = "flush" /\ worker'.pc # "flush") =>
             flushes[worker.fl].pc = "done"]_vars

\* flushWorker has terminated after a Flush of its own that the backend
\* answered with status 500.
C16_Witness ==
  /\ worker.pc = "done"
  /\ \E f \in FlushIds :
       /\ flushes[f].origin = "timer" /\ flushes[f].returned
       /\ flushes[f].lastErr # Nil
       /\ \E i \in 1..Len(flushes[f].att) : flushes[f].att[i].status = 500

\* C17: every call of Close returns: once the context is cancelled
\* flushWorker terminates, a Flush it is in coming to its end because every
\* request ends, and the Flush of Close then runs to its end, whatever
\* appends and size-triggered flushes go on at the same time.
C17_CloseReturns ==
  /\ \A t \in Owners : (thr[t].pc \in {"wgWait", "closeFlush"}) ~> (thr[t].pc = "idle")
  /\ ctxDone ~> (worker.pc = "done")

\* Close has returned although flushWorker was inside a Flush with records
\* when the context was cancelled: the request of that Flush was refused.
C17_Witness ==
  \E g \in ClosesReturned : \E f \in FlushIds :
    /\ flushes[f].origin = "timer"
    /\ NonEmptySnap(f)
    /\ flushes[f].swapAt <= flushes[g].before
    /\ ~flushes[f].att[1].sent

\* The number of scheduler tasks of the client: the flushWorker goroutines
\* that have been started and have not returned.
SchedulerTasks == IF worker.pc \in {"select", "flush"} THEN 1 ELSE 0

\* C18 as stated: until Close has returned there is exactly one scheduler
\* task, and there is none once Close has returned.
C18_OneSchedulerUntilCloseReturns ==
  /\ ClosesReturned = {} => SchedulerTasks = 1
  /\ ClosesReturned # {} => SchedulerTasks = 0

\* C18 as amended: there are never two scheduler tasks, and wg counts the one
\* there is; exactly one exists from New until Close cancels the context, and
\* it terminates during Close, before Close starts its final Flush: none
\* exists while that Flush runs and after Close has returned.
C18_OneScheduler ==
  /\ wg = SchedulerTasks
  /\ SchedulerTasks <= 1
  /\ ~ctxDone => SchedulerTasks = 1
  /\ \A t \in Threads : thr[t].pc = "closeFlush" => SchedulerTasks = 0
  /\ CloseFlushes # {} => SchedulerTasks = 0

\* Close is inside its final Flush, which has taken records, and flushWorker
\* has terminated already.
C18_Witness ==
  \E t \in Owners :
    /\ thr[t].pc = "closeFlush"
    /\ NonEmptySnap(thr[t].fl)
    /\ InFlight(thr[t].fl)
    /\ SchedulerTasks = 0

\* The records of s are in the order of their appends: a record gets its
\* number while its append holds the lock.
InAppendOrder(s) == \A i, j \in 1..Len(s) : i < j => s[i].id < s[j].id

\* C19: within one kind, a snapshot and a live buffer hold their records in
\* the order in which the appends took the lock; every record of a snapshot
\* was appended before every record of a snapshot of the same kind that was
\* swapped later, and before every record still in the buffer of that kind.
C19_AppendOrderKept ==
  \A k \in Kinds :
    /\ InAppendOrder(buf[k])
    /\ \A f \in FlushIds : Swapped(f) =>
         /\ InAppendOrder(flushes[f].snap[k])
         /\ \A r \in Ids(flushes[f].snap[k]) :
              /\ \A q \in Ids(buf[k]) : r < q
              /\ \A g \in FlushIds :
                   (Swapped(g) /\ SwapPos(f) < SwapPos(g)) =>
                      \A q \in Ids(flushes[g].snap[k]) : r < q

\* A snapshot holds two records of one kind, and a record of that kind
\* appended later is in the buffer.
C19_Witness ==
  \E k \in Kinds : \E f \in FlushIds :
    /\ Len(flushes[f].snap[k]) = 2
    /\ Len(buf[k]) = 1

\* C20: send makes one attempt for the request it is given and none again:
\* a Flush has at most one attempt per request of its snapshot and no record
\* is handed to the transport twice; an attempt succeeds exactly when a
\* response with a status below 400 came back, and fails, with a non-nil
\* error all the same, for a status of 400 or above, for no response
\* (connection, timeout, cancelled context) and for a payload that cannot be
\* encoded; no attempt, failed or not, changes a buffer.
C20_OneAttemptPerRequest ==
  /\ [](\A f \in FlushIds :
          /\ Len(flushes[f].att) <= Len(Requests(flushes[f].snap))
          /\ \A i \in 1..Len(flushes[f].att) :
               LET a == flushes[f].att[i]
               IN /\ a.recs = Requests(flushes[f].snap)[i].recs
                  /\ a.err = Nil <=> (a.sent /\ a.status # NoResponse /\ a.status < 400)
                  /\ a.status >= 400 => a.err # Nil
                  /\ a.status = NoResponse => a.err # Nil
                  /\ Ids(a.recs) \cap unencodable # {} => (a.err # Nil /\ ~a.sent)
                  /\ a.err # Nil => flushes[f].lastErr # Nil)
  /\ [](NoDuplicate(HandOvers(Len(flushes))))
  /\ [][\A f \in FlushIds :
          Len(flushes'[f].att) # Len(flushes[f].att) =>
             /\ Len(flushes'[f].att) = Len(flushes[f].att) + 1
             /\ buf' = buf]_vars

\* One Flush has ended with an attempt that failed before any request was
\* made, the payload being impossible to encode, and with an attempt that
\* the backend answered with status 399.
C20_Witness ==
  \E f \in FlushIds :
    /\ flushes[f].pc = "done"
    /\ \E i \in 1..Len(flushes[f].att) :
         /\ ~flushes[f].att[i].sent
         /\ flushes[f].att[i].err.msg = "failed to marshal payload"
    /\ \E j \in 1..Len(flushes[f].att) :
         /\ flushes[f].att[j].status = 399
         /\ flushes[f].att[j].err = Nil
    /\ flushes[f].lastErr # Nil

\* 1 for a non-empty batch, 0 for an empty one.
OneIfAny(s) == IF Len(s) > 0 THEN 1 ELSE 0

\* The number of attempts the claim gives for the snapshot of f.
AttemptsDue(f) ==
  OneIfAny(flushes[f].snap["log"]) + OneIfAny(flushes[f].snap["span"])
    + OneIfAny(flushes[f].snap["metric"]) + Len(flushes[f].snap["job"])

\* C21: a Flush that has ended has made (1 if L>0) + (1 if S>0) + (1 if M>0)
\* + J attempts for a snapshot of L logs, S spans, M metrics and J jobs, and
\* never more on its way; the attempt for logs, spans or metrics carries the
\* whole batch of its kind, an attempt for jobs carries one job, and every
\* job has its attempt whether or not the attempt for a job before it failed.
C21_AttemptCount ==
  \A f \in FlushIds :
    LET att == flushes[f].att
    IN /\ Len(att) <= AttemptsDue(f)
       /\ flushes[f].pc = "done" => Len(att) = AttemptsDue(f)
       /\ \A i \in 1..Len(att) :
            IF att[i].recs[1].kind = "job"
            THEN Len(att[i].recs) = 1
            ELSE att[i].recs = flushes[f].snap[att[i].recs[1].kind]
       /\ flushes[f].pc = "done" =>
            \A j \in 1..Len(flushes[f].snap["job"]) :
              \E i \in 1..Len(att) : att[i].recs = <<flushes[f].snap["job"][j]>>

\* A Flush has ended that took two jobs and a record of another kind: it
\* made three attempts, and the attempt for the first job failed.
C21_Witness ==
  \E f \in FlushIds :
    /\ flushes[f].pc = "done"
    /\ Len(flushes[f].snap["job"]) = 2
    /\ Len(flushes[f].att) = 3
    /\ Failed(flushes[f].att[2])
    /\ flushes[f].att[2].recs = <<flushes[f].snap["job"][1]>>

\* C22: an append is never refused or held back by the length of its buffer;
\* it makes the buffer one record longer, and it goes on to start a Flush
\* exactly when the buffer then holds BatchSize records or more, so also for
\* every append beyond BatchSize; the Flush that swaps takes the whole of
\* every buffer, however long, and leaves four empty ones.
C22_BufferUnbounded ==
  /\ [](\A t \in Threads : thr[t].pc = "locked" => ENABLED addAppend(t, thr[t].kind))
  /\ [][\A t \in Threads :
          (thr[t].pc = "locked" /\ thr'[t].pc # "locked") =>
             LET k == thr[t].kind
             IN /\ Len(buf'[k]) = Len(buf[k]) + 1
                /\ thr'[t].pc = "go" <=> Len(buf'[k]) >= config.BatchSize
                /\ thr'[t].pc # "go" => thr'[t].pc = "idle"]_vars
  /\ [][\A f \in FlushIds :
          (flushes[f].pc = "swap" /\ flushes'[f].pc # "swap") =>
             /\ flushes'[f].snap = buf
             /\ \A k \in Kinds : buf'[k] = <<>>]_vars

\* Two appends have each started a Flush, and the Flush that swapped first
\* has taken a snapshot of more than BatchSize records of one kind.
C22_Witness ==
  \E f, g \in FlushIds : \E k \in Kinds :
    /\ f # g
    /\ flushes[f].origin = "size" /\ flushes[g].origin = "size"
    /\ Swapped(f) /\ ~Swapped(g)
    /\ Len(flushes[f].snap[k]) > config.BatchSize

\* C23: what Close waits for is the termination of flushWorker, and then its
\* own Flush, nothing else: it goes on from wg.Wait exactly when flushWorker
\* has returned and it returns exactly when its own Flush has ended, whatever
\* state the flushes started by appends are in.
C23_CloseWaitsForSchedulerOnly ==
  \A t \in Owners :
    /\ thr[t].pc = "wgWait" => (ENABLED CloseWait(t) <=> worker.pc = "done")
    /\ thr[t].pc = "closeFlush" =>
         (ENABLED CloseReturn(t) <=> flushes[thr[t].fl].pc = "done")

\* Close has made its final Flush and has returned while a Flush started by
\* an append before Close still waits for the answer to its request.
C23_Witness ==
  \E g \in ClosesReturned : \E f \in FlushIds :
    /\ flushes[f].origin = "size"
    /\ flushes[f].before <= flushes[g].before
    /\ flushes[f].pc = "wait"

\* Flush invocation f has swapped the buffers.
HasSwapped(f) == \E i \in 1..Len(swapOrder) : swapOrder[i] = f

\* C24: a record that is in a buffer when flushWorker has started a Flush for
\* a tick is eventually in no buffer, whether or not its kind has reached
\* BatchSize: the Flush of that tick, at the latest, takes it; a Flush that
\* has swapped leaves no record appended before its swap in a buffer; and
\* once Close is called its final Flush swaps, after which no record appended
\* before that swap is in a buffer.
C24_EveryRecordLeavesItsBuffer ==
  /\ \A r \in 1..MaxOps :
       [](( /\ r \in LiveIds
            /\ worker.pc = "flush"
            /\ ~HasSwapped(worker.fl) ) => <>(r \notin LiveIds))
  /\ [](\A f \in FlushIds : HasSwapped(f) => \A r \in LiveIds : r > flushes[f].swapAt)
  /\ \A t \in Owners :
       (thr[t].pc = "wgWait") ~> (\E g \in CloseFlushes : HasSwapped(g))

\* The Flush of a tick has taken a single record, of a kind whose buffer was
\* below BatchSize, and no other Flush was started.
C24_Witness ==
  /\ config.BatchSize >= 2
  /\ Len(flushes) = 1
  /\ flushes[1].origin = "timer"
  /\ HasSwapped(1)
  /\ Cardinality(SnapIds(1)) = 1
  /\ LiveIds = {}

\* The span records that have not been handed to the transport: those in the
\* buffer, and those of a snapshot whose request has not been made.
SpansHeld ==
  Ids(buf["span"])
    \cup UNION {Ids(flushes[f].snap["span"]) \ Ids(Payloads(Handed(f))) :
                   f \in {g \in FlushIds : InFlight(g)}}

\* C25: a span record in the buffer or in a snapshot holds what it held when
\* End appended it, whatever SetAttribute, SetStatus and AddEvent have done
\* to its Span since.
C25_SpanRecordImmutable ==
  \A r \in SpansHeld :
    spanValue(spanData[r].data, span) = spanData[r].appendedAs

\* The requests the middleware has finished with.
Finished == {i \in DOMAIN http.served : i < Len(http.served) \/ http.pc = "idle"}

\* The kinds of the records the middleware appended for request i, in order.
AppendKinds(i) ==
  [j \in DOMAIN http.served[i].appends |-> http.served[i].appends[j].kind]

\* The records the middleware appended for request i are records of the client.
InClient(i) ==
  \A j \in DOMAIN http.served[i].appends :
    LET a == http.served[i].appends[j]
    IN  \E k \in Kinds : a.kind = k /\
          (a.id \in Ids(buf[k]) \/ \E f \in FlushIds : a.id \in Ids(flushes[f].snap[k]))

\* C26: for a request to /health, /healthz, /ready or /readyz the middleware
\* appends nothing; for every other request it appends one span named
\* "<method> <path>", after the wrapped handler has returned, and then two
\* metrics, and nothing else.
C26_MiddlewareAppends ==
  \A i \in DOMAIN http.served :
    LET r == http.served[i]
        n == Len(r.appends)
    IN  IF r.path \in {"/health", "/healthz", "/ready", "/readyz"}
          THEN r.appends = <<>>
          ELSE /\ n <= 3
               /\ AppendKinds(i) = SubSeq(<<"span", "metric", "metric">>, 1, n)
               /\ i \in Finished => n = 3
               /\ n >= 1 => r.appends[1].name = r.method \o " " \o r.path
               /\ \A j \in 1..n : r.appends[j].afterReturn
               /\ InClient(i)

C26_Witness ==
  \E i \in Finished, j \in Finished :
    /\ http.served[i].path = "/readyz" /\ http.served[i].returned
    /\ http.served[j].path = "/users" /\ Len(http.served[j].appends) = 3
    /\ http.served[j].appends[1].name = "GET /users"

\* The Flush invocations called after Close has signalled the cancellation:
\* the final Flush of a Close and every Flush called after it.
CalledAfterCancel == {f \in FlushIds : \E c \in CloseFlushes : c <= f}

\* The attempt that Flush invocation f has just recorded.
NewAttempt(f) == flushes'[f].att[Len(flushes'[f].att)]

\* Flush invocation f starts an attempt in this step.
StartsAttempt(f) == flushes[f].pc = "send" /\ flushes'[f] # flushes[f]

\* Flush invocation f ends in this step an attempt that was in flight.
EndsAttempt(f) == flushes[f].pc = "wait" /\ flushes'[f] # flushes[f]

\* An attempt that starts once the context is cancelled fails, and nothing
\* leaves the client.
StartedAfterCancelFails ==
  \A f \in FlushIds :
    (ctxDone /\ StartsAttempt(f)) =>
      /\ Len(flushes'[f].att) = Len(flushes[f].att) + 1
      /\ Failed(NewAttempt(f))
      /\ ~NewAttempt(f).sent

\* A Flush called after the cancellation, the final Flush of Close among
\* them, that took a non-empty snapshot returns an error and delivers no
\* record of the snapshot.
CalledAfterCancelFails ==
  \A f \in CalledAfterCancel :
    (flushes[f].pc = "done" /\ NonEmptySnap(f)) =>
      /\ flushes[f].lastErr # Nil
      /\ \A i \in 1..Len(flushes[f].att) : Failed(flushes[f].att[i])
      /\ \A r \in SnapIds(f) : ~Delivered(r)

SizeFlushes == {f \in FlushIds : flushes[f].origin = "size"}

\* Flush invocation f performs its swap in this step.
Swaps(f) == flushes[f].pc = "swap" /\ flushes'[f].pc # "swap"

\* C28: a Flush started because one kind reached BatchSize swaps out all
\* four buffers: its snapshot is the four buffers as they are at the swap,
\* whatever their lengths, all four are empty after it, and when it returns
\* every record of the snapshot has been in one of its requests.
C28_SizeFlushTakesAllKinds ==
  /\ [][\A f \in SizeFlushes :
          Swaps(f) => \A k \in Kinds : flushes'[f].snap[k] = buf[k] /\ buf'[k] = <<>>]_vars
  /\ [](\A f \in SizeFlushes :
          flushes[f].pc = "done" => SnapIds(f) = Ids(Payloads(flushes[f].att)))

\* A size-triggered Flush has returned whose snapshot held BatchSize records
\* of one kind and fewer, but some, of another.
C28_Witness ==
  \E f \in SizeFlushes : \E k1, k2 \in Kinds :
    /\ flushes[f].pc = "done"
    /\ Len(flushes[f].snap[k1]) >= config.BatchSize
    /\ Len(flushes[f].snap[k2]) > 0
    /\ Len(flushes[f].snap[k2]) < config.BatchSize

\* Test has returned, and what it returned.
TestReturned == test.fl # 0 /\ flushes[test.fl].returned
TestError == flushes[test.fl].lastErr

\* C29: Test returns nil only if its test entry has been delivered to the
\* backend with a success status, whatever the scheduler and the
\* size-triggered Flush invocations do meanwhile.
C29_TestNilMeansDelivered ==
  (TestReturned /\ TestError = Nil) => Delivered(test.entry)

\* The Flush invocations of flushWorker.
TimerFlushes == {f \in FlushIds : flushes[f].origin = "timer"}

\* Goroutine t appends the record of its call in this step.
Appends(t) == thr[t].pc = "locked" /\ thr'[t].pc # "locked"

\* C30: once a Close has returned, an append still puts its record at the end
\* of the buffer of its kind; flushWorker has returned and every Flush it
\* called returned before the final Flush of Close was called, so none runs
\* any more; and a record leaves a buffer only in the swap of a Flush that the
\* application, an append at the threshold or a Close called.
C30_AfterClose ==
  /\ [][ClosesReturned # {} =>
          \A t \in Threads : Appends(t) =>
            /\ appended' = appended + 1
            /\ buf' = [buf EXCEPT ![thr[t].kind] =
                         Append(@, [id |-> appended', kind |-> thr[t].kind])]]_vars
  /\ [](ClosesReturned # {} =>
          /\ worker.pc = "done"
          /\ \A f \in TimerFlushes :
               flushes[f].returned /\ \A c \in CloseFlushes : f < c)
  /\ [][ClosesReturned # {} =>
          /\ \A f \in FlushIds :
               Swaps(f) => flushes[f].origin \in {"manual", "size", "close"}
          /\ ~(LiveIds \subseteq LiveIds') => \E f \in FlushIds : Swaps(f)]_vars

\* Close has returned, the application has then called Flush, which has
\* returned, and a record appended after that call is in its buffer, with no
\* Flush running.
C30_Witness ==
  \E c \in ClosesReturned, m \in FlushIds :
    /\ c < m /\ flushes[m].origin = "manual" /\ flushes[m].returned
    /\ \E r \in LiveIds : r > flushes[m].before
    /\ \A f \in FlushIds : flushes[f].pc = "done"
    /\ \A t \in Threads : thr[t].pc = "idle"

\* The final Flush invocations of a second or later Close: an earlier Close
\* had returned when they were called.
LaterCloses == {c \in CloseFlushes : \E p \in ClosesReturned : p < c}

\* C31 with the buffers as they are at the swap: a Close called after another
\* has returned finds the context cancelled and flushWorker terminated, and
\* c.wg.Wait() lets it through at once; its final Flush swaps out all four
\* buffers, which hold only records appended after the swap of the earlier
\* Close; and when it returns no record appended before that swap is in a
\* buffer, so all four are empty as long as nothing was appended after it.
C31_CloseAgain ==
  /\ [](\A t \in Owners :
          (thr[t].pc = "wgWait" /\ ClosesReturned # {}) =>
            ctxDone /\ worker.pc = "done" /\ wg = 0 /\ ENABLED CloseWait(t))
  /\ [][\A c \in LaterCloses :
          Swaps(c) => \A k \in Kinds : flushes'[c].snap[k] = buf[k] /\ buf'[k] = <<>>]_vars
  /\ [](\A c \in LaterCloses :
          /\ \A r \in SnapIds(c) : \A q \in ClosesReturned : q < c => r > flushes[q].swapAt
          /\ flushes[c].returned =>
               /\ flushes[c].pc = "done" /\ HasSwapped(c)
               /\ \A r \in LiveIds : r > flushes[c].swapAt
               /\ appended = flushes[c].swapAt => \A k \in Kinds : buf[k] = <<>>)

\* C31 as stated: when a second or later Close returns, all four buffers are
\* empty.
C31_CloseAgainLeavesBuffersEmpty ==
  [][\A t \in Owners :
       (thr[t].pc = "closeFlush" /\ thr'[t].pc = "idle" /\ thr[t].fl \in LaterCloses) =>
          \A k \in Kinds : buf'[k] = <<>>]_vars

\* A second Close has returned whose final Flush took the records appended
\* since the first, and nothing has been appended since.
C31_Witness ==
  \E c \in LaterCloses :
    /\ flushes[c].returned
    /\ NonEmptySnap(c)
    /\ appended = flushes[c].swapAt

\* Goroutine t takes a step of an append in this step (the lock, the append
\* itself, or the start of the Flush at the threshold), and the kind of that
\* append.
InAppend(t) ==
  /\ thr'[t] # thr[t]
  /\ thr[t].pc \in {"locked", "go"} \/ thr'[t].pc = "locked"
AppendKind(t) == IF thr[t].pc = "idle" THEN thr'[t].kind ELSE thr[t].kind

\* C32: an append of one kind puts exactly one record at the end of the
\* buffer of that kind, in the step it takes under bufferMu, and in none of
\* its steps changes the other three buffers, the configuration, flushWorker,
\* the context, or any Flush invocation there is, the snapshots that are being
\* delivered among them.
C32_AppendFrame ==
  [][\A t \in Threads :
       InAppend(t) =>
         /\ \A k \in Kinds \ {AppendKind(t)} : buf'[k] = buf[k]
         /\ IF Appends(t)
              THEN /\ appended' = appended + 1
                   /\ buf'[AppendKind(t)] =
                        Append(buf[AppendKind(t)], [id |-> appended', kind |-> AppendKind(t)])
              ELSE buf' = buf /\ appended' = appended
         /\ config' = config /\ cfg' = cfg
         /\ worker' = worker /\ wg' = wg /\ ctxDone' = ctxDone
         /\ \A f \in FlushIds : flushes'[f] = flushes[f]]_vars

\* A record has been appended to a buffer while a Flush was delivering a
\* non-empty snapshot, and the buffer of another kind holds a record too.
C32_Witness ==
  \E f \in FlushIds : \E k1, k2 \in Kinds :
    /\ InFlight(f) /\ NonEmptySnap(f)
    /\ k1 # k2 /\ buf[k2] # <<>>
    /\ \E r \in Ids(buf[k1]) : r > flushes[f].swapAt

====
